---- MODULE Spec2Model ----
(***************************************************************************)
(* Model of nekoton's OwnersCache (src/core/owners_cache/mod.rs): the      *)
(* owner map and the token-contract-state map behind their RwLocks, the    *)
(* resolver semaphore, the persisted "owners_cache" record, and the async  *)
(* operations load / load_unchecked / get_owner / add_entry /              *)
(* add_owners_list / resolve_owners / check_recipient_wallet, one action   *)
(* per stretch of code between two await points.                           *)
(***************************************************************************)
EXTENDS Integers, Sequences, FiniteSets, TLC

(* ----------------------------- bounds ---------------------------------- *)
\* total number of public calls started on one cache
MaxCalls == 2

(* ----------------------------- universe -------------------------------- *)
Callers == {"c1", "c2"}
TokenWallets == {"w1", "w2"}
Owners == {"o1", "o2"}
Roots == {"r1", "r2", "r3"}
\* the values of concurrent_resolvers the cache is built with
Limits == {1, 2}
\* what each caller asks of the cache
Ops(c) ==
    IF c = "c1"
    THEN {"get_owner", "add_entry", "add_owners_list", "resolve_owners",
          "check_recipient_wallet"}
    ELSE {"add_entry", "resolve_owners", "check_recipient_wallet"}
AddEntryInputs == {<<"w1", "o1">>, <<"w1", "o2">>, <<"w2", "o2">>}
CrwInputs == {<<"r1", "o1">>, <<"r1", "o2">>, <<"r2", "o1">>, <<"r3", "o1">>}
NoOne == "-"

\* the owner recorded on chain in the token wallet's contract data
ChainOwner(w) == IF w = "w1" THEN "o1" ELSE "o2"

\* what the chain holds at a root address
RootKind(r) ==
    CASE r = "r1" -> "good"
      [] r = "r2" -> "absent"
      [] OTHER    -> "undetectable"

\* RootTokenContractState::get_wallet_address on the cached root state
GetWalletAddress(r, o) ==
    IF r = "r1" /\ o = "o1" THEN "w1" ELSE "fail"

(* ------------------------ address <-> string --------------------------- *)
\* MsgAddressInt::to_string: the canonical "<workchain>:<hex>" text
AddrToString(a) == <<"0:", a>>
\* MsgAddressInt::from_str: accepts the canonical text only
AddrParses(s) == s[1] = "0:"
AddrFromStr(s) == s[2]
BadString == <<"zz", "w1">>

(* --------------------------- persisted record -------------------------- *)
Missing == [k |-> "missing", items |-> <<>>]
Malformed == [k |-> "malformed", items |-> <<>>]
Listed(items) == [k |-> "list", items |-> items]
Pair(w, o) == <<AddrToString(w), AddrToString(o)>>

InitialRecords ==
    { Missing, Malformed, Listed(<<>>),
      Listed(<<Pair("w2", "o2"), Pair("w1", "o1"), Pair("w2", "o1")>>),
      Listed(<<<<BadString, AddrToString("o1")>>>>),
      Listed(<<Pair("w1", "o1"), <<AddrToString("w2"), BadString>>>>) }

EmptyMap == [w \in {} |-> NoOne]
Insert(m, w, o) == (w :> o) @@ m

VARIABLES
    cache,      \* "none" before construction, "ok" once built, "failed" when load returned Err
    ctor,       \* the constructor that has just returned and whether its storage.get
                \* succeeded, until the first call on the cache
    storage,    \* the record under STORAGE_OWNERS_CACHE
    owners,     \* self.owners
    token_contract_states,  \* keys of self.token_contract_states
    limit,      \* concurrent_resolvers
    permits,    \* permits available in self.resolver_semaphore
    ownersW,    \* holder of the owners write lock
    ownersR,    \* holders of an owners read lock
    tcsW,       \* holder of the token_contract_states write lock
    pc,         \* per caller: where its current call stands
    arg,        \* per caller: the arguments of its current (or last) call
    ret,        \* per caller: what its last call returned
    sub,        \* per caller and token wallet: the resolve_owners sub-future
    ncalls,     \* calls started so far
    root_fetches,   \* per root: get_contract_state calls check_recipient_wallet issued
    detections,     \* per root: guess_details calls
    fetched,    \* per caller: transport fetches issued by its current (or last) resolve_owners
    first,      \* per caller: the resolve_owners call right before the current one
    disturbed   \* per caller: another caller's operation changed what this call wrote or read

\* the multisig message preparation of contracts/wallet/multisig.rs keeps no
\* state of its own: these hold the clock it reads, the value its last call
\* returned and the values sign returned for the message in hand
VARIABLES
    now,        \* Utc::now().timestamp_millis()
    prepared,   \* the last prepare_deploy / prepare_transfer call: arguments, steps, result
    unsigned,   \* the UnsignedMultisigMessage the last call returned, if any
    signed,     \* the sign calls made on it, in order: signature, time, result
    derived     \* the last compute_contract_address calls, in order

msig == <<now, prepared, unsigned, signed, derived>>

cachevars == <<cache, ctor, storage, owners, token_contract_states, limit, permits,
               ownersW, ownersR, tcsW, pc, arg, ret, sub, ncalls, root_fetches,
               detections, fetched, first, disturbed>>

vars == <<cachevars, msig>>

built == <<cache, limit>>
fixed == <<cache, ctor, limit>>
counts == <<root_fetches, detections>>

(* ------------------------------ load ----------------------------------- *)
\* lines 46-52: parse the pairs in order into a HashMap, stopping at the first
\* address string that does not parse; a repeated key keeps its last owner
RECURSIVE CollectItems(_, _, _)
CollectItems(items, i, acc) ==
    IF i > Len(items) THEN [ok |-> TRUE, map |-> acc]
    ELSE IF ~AddrParses(items[i][1]) \/ ~AddrParses(items[i][2])
         THEN [ok |-> FALSE, map |-> EmptyMap]
         ELSE CollectItems(items, i + 1,
                           Insert(acc, AddrFromStr(items[i][1]), AddrFromStr(items[i][2])))

\* mutant: a missing record is reported as a failure
LoadResultMissingFails(rec, getOk) ==
    IF ~getOk \/ rec.k # "list" THEN [ok |-> FALSE, map |-> EmptyMap]
    ELSE CollectItems(rec.items, 1, EmptyMap)

\* lines 42-45: storage.get(..)? , then serde_json::from_str on a present record
LoadResult(rec, getOk) ==
    IF ~getOk THEN [ok |-> FALSE, map |-> EmptyMap]
    ELSE IF rec.k = "missing" THEN [ok |-> TRUE, map |-> EmptyMap]
    ELSE IF rec.k = "malformed" THEN [ok |-> FALSE, map |-> EmptyMap]
    ELSE CollectItems(rec.items, 1, EmptyMap)

Load(n, getOk) ==
    /\ cache = "none"
    /\ LET res == LoadResult(storage, getOk) IN
         /\ cache' = IF res.ok THEN "ok" ELSE "failed"
         /\ owners' = res.map
    /\ ctor' = [by |-> "load", getOk |-> getOk]
    /\ limit' = n
    /\ permits' = n
    /\ UNCHANGED <<msig, storage, token_contract_states, ownersW, ownersR, tcsW,
                   pc, arg, ret, sub, ncalls, counts, fetched, first, disturbed>>

LoadUnchecked(n, getOk) ==
    /\ cache = "none"
    /\ LET res == LoadResult(storage, getOk) IN
         owners' = IF res.ok THEN res.map ELSE EmptyMap
    /\ cache' = "ok"
    /\ ctor' = [by |-> "load_unchecked", getOk |-> getOk]
    /\ limit' = n
    /\ permits' = n
    /\ UNCHANGED <<msig, storage, token_contract_states, ownersW, ownersR, tcsW,
                   pc, arg, ret, sub, ncalls, counts, fetched, first, disturbed>>

(* ------------------------------ save ----------------------------------- *)
\* lines 198-210: one [token_wallet, owner] string pair per map entry, in the
\* HashMap's iteration order, which is any order
Encodings(m) ==
    LET n == Cardinality(DOMAIN m)
        orders == {f \in [1..n -> DOMAIN m] : \A i, j \in 1..n : f[i] = f[j] => i = j}
    IN  {[i \in 1..n |-> Pair(f[i], m[f[i]])] : f \in orders}

\* mutant: each item is written as [owner, token_wallet]
SaveSwapped(m) ==
    \E items \in Encodings(m) :
        storage' = Listed([i \in 1..Len(items) |-> <<items[i][2], items[i][1]>>])

\* lines 212-213: storage.set_unchecked(STORAGE_OWNERS_CACHE, json)
Save(m) == \E items \in Encodings(m) : storage' = Listed(items)

(* --------------------------- call bookkeeping -------------------------- *)
NoArg == [op |-> "none", w |-> NoOne, o |-> NoOne, r |-> NoOne, ws |-> {},
          pairs |-> <<>>, hit |-> FALSE, obs |-> NoOne]
NoRet == [tag |-> "none", val |-> NoOne, map |-> EmptyMap]
NoSub == [st |-> "none", out |-> NoOne, own |-> NoOne]
NoFirst == [set |-> FALSE, ws |-> {}, map |-> EmptyMap]
NoCtor == [by |-> NoOne, getOk |-> TRUE]
Nobody == <<NoOne, NoOne>>
Task(c) == <<c, NoOne>>

CanCall(c, op) ==
    /\ op \in Ops(c)
    /\ cache = "ok"
    /\ pc[c] = "idle"
    /\ ncalls < MaxCalls

OwnersFree == ownersW = Nobody /\ ownersR = {}

\* does the owner map m2, written by another caller, change what x's call rests on
Affects(x, m2) ==
    CASE arg[x].op = "resolve_owners" -> m2 # owners
      [] arg[x].op = "check_recipient_wallet" /\ pc[x] = "ctw_fetch" ->
            m2[GetWalletAddress(arg[x].r, arg[x].o)] # arg[x].o
      [] OTHER -> FALSE

Disturb(actor, m2) ==
    [x \in Callers |-> IF x # actor /\ Affects(x, m2) THEN TRUE ELSE disturbed[x]]

\* a call other than resolve_owners starts: nothing to compare it with
StartPlain(c) ==
    /\ ret' = [ret EXCEPT ![c] = NoRet]
    /\ ncalls' = ncalls + 1
    /\ first' = [first EXCEPT ![c] = NoFirst]
    /\ disturbed' = [disturbed EXCEPT ![c] = FALSE]
    /\ fetched' = [fetched EXCEPT ![c] = 0]
    /\ sub' = [sub EXCEPT ![c] = [w \in TokenWallets |-> NoSub]]
    /\ ctor' = NoCtor

(* ----------------------------- get_owner ------------------------------- *)
\* line 162: self.owners.read().await
GetOwnerRead(c, w) ==
    /\ CanCall(c, "get_owner")
    /\ ownersW = Nobody
    /\ ownersR' = ownersR \cup {Task(c)}
    /\ pc' = [pc EXCEPT ![c] = "go_rd"]
    /\ arg' = [arg EXCEPT ![c] = [NoArg EXCEPT !.op = "get_owner", !.w = w]]
    /\ StartPlain(c)
    /\ UNCHANGED <<msig, fixed, storage, owners, token_contract_states,
                   permits, ownersW, tcsW, counts>>

\* line 162: .get(token_wallet).cloned(), the guard dropped
GetOwnerReturn(c) ==
    /\ pc[c] = "go_rd"
    /\ ownersR' = ownersR \ {Task(c)}
    /\ ret' = [ret EXCEPT ![c] =
                 IF arg[c].w \in DOMAIN owners
                 THEN [NoRet EXCEPT !.tag = "Some", !.val = owners[arg[c].w]]
                 ELSE [NoRet EXCEPT !.tag = "None"]]
    /\ pc' = [pc EXCEPT ![c] = "idle"]
    /\ UNCHANGED <<msig, fixed, storage, owners, token_contract_states, permits,
                   ownersW, tcsW, arg, sub, ncalls, counts, fetched, first, disturbed>>

(* ------------------------------ add_entry ------------------------------ *)
\* line 166: self.owners.write().await
AddEntryWrite(c, w, o) ==
    /\ CanCall(c, "add_entry")
    /\ OwnersFree
    /\ ownersW' = Task(c)
    /\ pc' = [pc EXCEPT ![c] = "ae_wl"]
    /\ arg' = [arg EXCEPT ![c] = [NoArg EXCEPT !.op = "add_entry", !.w = w, !.o = o]]
    /\ StartPlain(c)
    /\ UNCHANGED <<msig, fixed, storage, owners, token_contract_states,
                   permits, ownersR, tcsW, counts>>

\* lines 167-169: insert, save, guard dropped
AddEntryInsert(c) ==
    /\ pc[c] = "ae_wl"
    /\ owners' = Insert(owners, arg[c].w, arg[c].o)
    /\ Save(owners')
    /\ ownersW' = Nobody
    /\ ret' = [ret EXCEPT ![c] = [NoRet EXCEPT !.tag = "unit"]]
    /\ pc' = [pc EXCEPT ![c] = "idle"]
    /\ disturbed' = Disturb(c, owners')
    /\ UNCHANGED <<msig, fixed, token_contract_states, permits, ownersR,
                   tcsW, arg, sub, ncalls, counts, fetched, first>>

(* --------------------------- add_owners_list --------------------------- *)
OwnerLists ==
    { <<>>, <<<<"w2", "o2">>, <<"w1", "o1">>, <<"w2", "o1">>>> }

\* line 176: HashMap::extend inserts the pairs in iteration order
RECURSIVE Extend(_, _, _)
Extend(m, pairs, i) ==
    IF i > Len(pairs) THEN m
    ELSE Extend(Insert(m, pairs[i][1], pairs[i][2]), pairs, i + 1)

\* line 175: self.owners.write().await
AddOwnersListWrite(c, pairs) ==
    /\ CanCall(c, "add_owners_list")
    /\ OwnersFree
    /\ ownersW' = Task(c)
    /\ pc' = [pc EXCEPT ![c] = "al_wl"]
    /\ arg' = [arg EXCEPT ![c] = [NoArg EXCEPT !.op = "add_owners_list", !.pairs = pairs]]
    /\ StartPlain(c)
    /\ UNCHANGED <<msig, built, storage, owners, token_contract_states,
                   permits, ownersR, tcsW, counts>>

\* lines 176-178: extend, save, guard dropped
AddOwnersListExtend(c) ==
    /\ pc[c] = "al_wl"
    /\ owners' = Extend(owners, arg[c].pairs, 1)
    /\ Save(owners')
    /\ ownersW' = Nobody
    /\ ret' = [ret EXCEPT ![c] = [NoRet EXCEPT !.tag = "unit"]]
    /\ pc' = [pc EXCEPT ![c] = "idle"]
    /\ disturbed' = Disturb(c, owners')
    /\ UNCHANGED <<msig, fixed, token_contract_states, permits, ownersR,
                   tcsW, arg, sub, ncalls, counts, fetched, first>>

(* ---------------------------- resolve_owners --------------------------- *)
ResolveInputs(c) ==
    IF c = "c1" THEN { <<>>, <<"w1">>, <<"w1", "w2", "w1">> }
    ELSE { <<"w1">>, <<"w2", "w2">> }

\* line 130: token_wallets.iter().collect::<HashSet<_>>()
Dedup(list) == {list[i] : i \in 1..Len(list)}

\* what transport.get_contract_state and the version / details getters can yield
\* for a token wallet (lines 140-146)
WalletOutcomes == {"err", "notexists", "noversion", "nodetails", "ok"}

\* lines 126-134: one future per distinct token wallet
ResolveCall(c, list) ==
    /\ CanCall(c, "resolve_owners")
    /\ pc' = [pc EXCEPT ![c] = "ro"]
    /\ arg' = [arg EXCEPT ![c] = [NoArg EXCEPT !.op = "resolve_owners", !.ws = Dedup(list)]]
    /\ sub' = [sub EXCEPT ![c] =
                 [w \in TokenWallets |->
                    IF w \in Dedup(list) THEN [NoSub EXCEPT !.st = "start"] ELSE NoSub]]
    /\ ret' = [ret EXCEPT ![c] = NoRet]
    /\ ncalls' = ncalls + 1
    /\ fetched' = [fetched EXCEPT ![c] = 0]
    /\ ctor' = NoCtor
    /\ IF arg[c].op = "resolve_owners" /\ ret[c].tag = "map" /\ ~disturbed[c]
       THEN /\ first' = [first EXCEPT ![c] =
                           [set |-> TRUE, ws |-> arg[c].ws, map |-> ret[c].map]]
            /\ UNCHANGED disturbed
       ELSE /\ first' = [first EXCEPT ![c] = NoFirst]
            /\ disturbed' = [disturbed EXCEPT ![c] = FALSE]
    /\ UNCHANGED <<msig, built, storage, owners, token_contract_states, permits,
                   ownersW, ownersR, tcsW, counts>>

\* line 135: owners.read().await
SubRead(c, w) ==
    /\ sub[c][w].st = "start"
    /\ ownersW = Nobody
    /\ ownersR' = ownersR \cup {<<c, w>>}
    /\ sub' = [sub EXCEPT ![c][w].st = "rd"]
    /\ UNCHANGED <<msig, fixed, storage, owners, token_contract_states, permits,
                   ownersW, tcsW, pc, arg, ret, ncalls, counts, fetched, first,
                   disturbed>>

\* mutant: on a miss the read guard lives on while the task waits for its permit
SubLookupKeepsGuard(c, w) ==
    /\ sub[c][w].st = "rd"
    /\ ownersR' = IF w \in DOMAIN owners THEN ownersR \ {<<c, w>>} ELSE ownersR
    /\ sub' = [sub EXCEPT ![c][w] =
                 IF w \in DOMAIN owners
                 THEN [st |-> "done", out |-> "hit", own |-> owners[w]]
                 ELSE [NoSub EXCEPT !.st = "acq"]]
    /\ UNCHANGED <<msig, fixed, storage, owners, token_contract_states, permits,
                   ownersW, tcsW, pc, arg, ret, ncalls, counts, fetched, first,
                   disturbed>>

\* lines 135-137: .get(token_wallet); a hit returns the cached pair
SubLookup(c, w) ==
    /\ sub[c][w].st = "rd"
    /\ ownersR' = ownersR \ {<<c, w>>}
    /\ sub' = [sub EXCEPT ![c][w] =
                 IF w \in DOMAIN owners
                 THEN [st |-> "done", out |-> "hit", own |-> owners[w]]
                 ELSE [NoSub EXCEPT !.st = "acq"]]
    /\ UNCHANGED <<msig, fixed, storage, owners, token_contract_states, permits,
                   ownersW, tcsW, pc, arg, ret, ncalls, counts, fetched, first,
                   disturbed>>

\* mutant: the fetch is issued without waiting for a permit
SubAcquireNoPermit(c, w) ==
    /\ sub[c][w].st = "acq"
    /\ permits' = permits - 1
    /\ sub' = [sub EXCEPT ![c][w].st = "fetch"]
    /\ fetched' = [fetched EXCEPT ![c] = @ + 1]
    /\ UNCHANGED <<msig, fixed, storage, owners, token_contract_states,
                   ownersW, ownersR, tcsW, pc, arg, ret, ncalls, counts, first,
                   disturbed>>

\* lines 139-140: semaphore.acquire().await, then the fetch is issued
SubAcquire(c, w) ==
    /\ sub[c][w].st = "acq"
    /\ permits > 0
    /\ permits' = permits - 1
    /\ sub' = [sub EXCEPT ![c][w].st = "fetch"]
    /\ fetched' = [fetched EXCEPT ![c] = @ + 1]
    /\ UNCHANGED <<msig, fixed, storage, owners, token_contract_states,
                   ownersW, ownersR, tcsW, pc, arg, ret, ncalls, counts, first,
                   disturbed>>

\* mutant: a failed fetch returns None with the permit still taken
SubFetchedKeepsPermit(c, w, outcome) ==
    /\ sub[c][w].st = "fetch"
    /\ sub' = [sub EXCEPT ![c][w] =
                 IF outcome = "ok"
                 THEN [st |-> "wr", out |-> "ok", own |-> ChainOwner(w)]
                 ELSE [st |-> "done", out |-> "failed", own |-> NoOne]]
    /\ UNCHANGED <<msig, fixed, storage, owners, token_contract_states, permits,
                   ownersW, ownersR, tcsW, pc, arg, ret, ncalls, counts, fetched,
                   first, disturbed>>

\* lines 140-146: the fetch returns; every failure returns None and drops the permit
SubFetched(c, w, outcome) ==
    /\ sub[c][w].st = "fetch"
    /\ IF outcome = "ok"
       THEN /\ sub' = [sub EXCEPT ![c][w] =
                         [st |-> "wr", out |-> "ok", own |-> ChainOwner(w)]]
            /\ UNCHANGED permits
       ELSE /\ sub' = [sub EXCEPT ![c][w] =
                         [st |-> "done", out |-> "failed", own |-> NoOne]]
            /\ permits' = permits + 1
    /\ UNCHANGED <<msig, fixed, storage, owners, token_contract_states,
                   ownersW, ownersR, tcsW, pc, arg, ret, ncalls, counts, fetched,
                   first, disturbed>>

\* lines 148-150: owners.write().await
SubWrite(c, w) ==
    /\ sub[c][w].st = "wr"
    /\ OwnersFree
    /\ ownersW' = <<c, w>>
    /\ sub' = [sub EXCEPT ![c][w].st = "wl"]
    /\ UNCHANGED <<msig, fixed, storage, owners, token_contract_states, permits,
                   ownersR, tcsW, pc, arg, ret, ncalls, counts, fetched, first,
                   disturbed>>

\* mutant: the resolved pair is returned but not recorded
SubInsertDropped(c, w) ==
    /\ sub[c][w].st = "wl"
    /\ owners' = owners
    /\ ownersW' = Nobody
    /\ permits' = permits + 1
    /\ sub' = [sub EXCEPT ![c][w].st = "done"]
    /\ disturbed' = Disturb(c, owners')
    /\ UNCHANGED <<msig, fixed, storage, token_contract_states,
                   ownersR, tcsW, pc, arg, ret, ncalls, counts, fetched, first>>

\* lines 151-154: insert, the guard and then the permit dropped
SubInsert(c, w) ==
    /\ sub[c][w].st = "wl"
    /\ owners' = Insert(owners, w, sub[c][w].own)
    /\ ownersW' = Nobody
    /\ permits' = permits + 1
    /\ sub' = [sub EXCEPT ![c][w].st = "done"]
    /\ disturbed' = Disturb(c, owners')
    /\ UNCHANGED <<msig, fixed, storage, token_contract_states,
                   ownersR, tcsW, pc, arg, ret, ncalls, counts, fetched, first>>

\* mutant: the failed tasks are collected too
CollectedUnfiltered(c) ==
    LET kept == {w \in TokenWallets : sub[c][w].st = "done"}
    IN  [w \in kept |-> sub[c][w].own]

\* lines 155-158: filter_map keeps the Some(..) values, collected into the map
Collected(c) ==
    LET kept == {w \in TokenWallets : sub[c][w].st = "done" /\ sub[c][w].own # NoOne}
    IN  [w \in kept |-> sub[c][w].own]

ResolveReturn(c) ==
    /\ pc[c] = "ro"
    /\ \A w \in TokenWallets : sub[c][w].st \in {"none", "done"}
    /\ ret' = [ret EXCEPT ![c] = [NoRet EXCEPT !.tag = "map", !.map = Collected(c)]]
    /\ pc' = [pc EXCEPT ![c] = "idle"]
    /\ UNCHANGED <<msig, fixed, storage, owners, token_contract_states, permits,
                   ownersW, ownersR, tcsW, arg, sub, ncalls, counts, fetched,
                   first, disturbed>>

\* the caller drops the future resolve_owners returned before it completed (a
\* timeout around the call): the FuturesUnordered of lines 132-155 and every
\* future in it are dropped with it, none was spawned; a dropped future gives
\* back its permit and is not polled again. A future can be dropped only while
\* it is suspended at an await: the read lock, the permit, the fetch, the write lock
AtAwait(c, w) == sub[c][w].st \in {"none", "start", "acq", "fetch", "wr", "done"}

Abandon(c) ==
    /\ pc[c] = "ro"
    /\ \A w \in TokenWallets : AtAwait(c, w)
    /\ \E w \in TokenWallets : sub[c][w].st \notin {"none", "done"}
    /\ permits' = permits + Cardinality({w \in TokenWallets : sub[c][w].st \in {"fetch", "wr"}})
    /\ sub' = [sub EXCEPT ![c] =
                 [w \in TokenWallets |->
                    IF sub[c][w].st \in {"none", "done"} THEN sub[c][w]
                    ELSE [sub[c][w] EXCEPT !.st = "dropped"]]]
    /\ pc' = [pc EXCEPT ![c] = "idle"]
    /\ arg' = [arg EXCEPT ![c].obs = "abandoned"]
    /\ UNCHANGED <<msig, fixed, storage, owners, token_contract_states,
                   ownersW, ownersR, tcsW, ret, ncalls, counts, fetched, first,
                   disturbed>>

(* ------------------------ check_recipient_wallet ----------------------- *)
\* the error guess_details reports for a root whose version it cannot detect
GuessDetailsError == "InvalidRootTokenContract"

Failed(kind) == [NoRet EXCEPT !.tag = "Err", !.val = kind]

\* lines 223-226 up to the await: derive the token wallet from the cached root
\* state; an underivable address returns the error and ends the call
AfterRootKnown(c, r, o) ==
    IF GetWalletAddress(r, o) = "fail"
    THEN /\ pc' = [pc EXCEPT ![c] = "idle"]
         /\ ret' = [ret EXCEPT ![c] = Failed("get_wallet_address")]
         /\ tcsW' = NoOne
    ELSE /\ pc' = [pc EXCEPT ![c] = "ctw_wr"]
         /\ ret' = [ret EXCEPT ![c] = NoRet]
         /\ tcsW' = c

\* lines 84-99: token_contract_states.write().await, then the entry: Occupied
\* goes to check_token_wallet, Vacant issues the fetch of the root's state
CrwEnter(c, r, o) ==
    /\ CanCall(c, "check_recipient_wallet")
    /\ tcsW = NoOne
    /\ arg' = [arg EXCEPT ![c] =
                 [NoArg EXCEPT !.op = "check_recipient_wallet", !.r = r, !.o = o,
                               !.hit = (r \in token_contract_states)]]
    /\ IF r \in token_contract_states
       THEN /\ AfterRootKnown(c, r, o)
            /\ UNCHANGED root_fetches
       ELSE /\ pc' = [pc EXCEPT ![c] = "root_fetch"]
            /\ ret' = [ret EXCEPT ![c] = NoRet]
            /\ tcsW' = c
            /\ root_fetches' = [root_fetches EXCEPT ![r] = @ + 1]
    /\ ncalls' = ncalls + 1
    /\ first' = [first EXCEPT ![c] = NoFirst]
    /\ disturbed' = [disturbed EXCEPT ![c] = FALSE]
    /\ fetched' = [fetched EXCEPT ![c] = 0]
    /\ sub' = [sub EXCEPT ![c] = [w \in TokenWallets |-> NoSub]]
    /\ ctor' = NoCtor
    /\ UNCHANGED <<msig, built, storage, owners, token_contract_states, permits,
                   ownersW, ownersR, detections>>

\* lines 96-99: the fetch of the root's state fails in the transport
CrwRootError(c) ==
    /\ pc[c] = "root_fetch"
    /\ pc' = [pc EXCEPT ![c] = "idle"]
    /\ ret' = [ret EXCEPT ![c] = Failed("transport")]
    /\ arg' = [arg EXCEPT ![c].obs = "root_err"]
    /\ tcsW' = NoOne
    /\ UNCHANGED <<msig, fixed, storage, owners, token_contract_states, permits,
                   ownersW, ownersR, sub, ncalls, counts, fetched, first, disturbed>>

\* mutant: the fetched root state is used but not kept in the map
CrwRootFetchedUncached(c) ==
    /\ pc[c] = "root_fetch"
    /\ LET r == arg[c].r IN
         /\ arg' = [arg EXCEPT ![c].obs = RootKind(r)]
         /\ IF RootKind(r) = "absent"
            THEN /\ pc' = [pc EXCEPT ![c] = "idle"]
                 /\ ret' = [ret EXCEPT ![c] = Failed("InvalidRootTokenContract")]
                 /\ tcsW' = NoOne
                 /\ UNCHANGED <<token_contract_states, counts>>
            ELSE /\ detections' = [detections EXCEPT ![r] = @ + 1]
                 /\ UNCHANGED root_fetches
                 /\ IF RootKind(r) = "undetectable"
                    THEN /\ pc' = [pc EXCEPT ![c] = "idle"]
                         /\ ret' = [ret EXCEPT ![c] = Failed(GuessDetailsError)]
                         /\ tcsW' = NoOne
                         /\ UNCHANGED token_contract_states
                    ELSE /\ UNCHANGED token_contract_states
                         /\ AfterRootKnown(c, r, arg[c].o)
    /\ UNCHANGED <<msig, fixed, storage, owners, permits, ownersW, ownersR, sub,
                   ncalls, fetched, first, disturbed>>

\* mutant: the entry is inserted before the version is detected
CrwRootFetchedCachesFirst(c) ==
    /\ pc[c] = "root_fetch"
    /\ LET r == arg[c].r IN
         /\ arg' = [arg EXCEPT ![c].obs = RootKind(r)]
         /\ IF RootKind(r) = "absent"
            THEN /\ pc' = [pc EXCEPT ![c] = "idle"]
                 /\ ret' = [ret EXCEPT ![c] = Failed("InvalidRootTokenContract")]
                 /\ tcsW' = NoOne
                 /\ UNCHANGED <<token_contract_states, counts>>
            ELSE /\ detections' = [detections EXCEPT ![r] = @ + 1]
                 /\ UNCHANGED root_fetches
                 /\ IF RootKind(r) = "undetectable"
                    THEN /\ pc' = [pc EXCEPT ![c] = "idle"]
                         /\ ret' = [ret EXCEPT ![c] = Failed(GuessDetailsError)]
                         /\ tcsW' = NoOne
                         /\ token_contract_states' = token_contract_states \cup {r}
                    ELSE /\ token_contract_states' = token_contract_states \cup {r}
                         /\ AfterRootKnown(c, r, arg[c].o)
    /\ UNCHANGED <<msig, fixed, storage, owners, permits, ownersW, ownersR, sub,
                   ncalls, fetched, first, disturbed>>

\* lines 100-116: the transport answers for the root: NotExists, or its state,
\* from which guess_details detects the version before entry.insert
CrwRootFetched(c) ==
    /\ pc[c] = "root_fetch"
    /\ LET r == arg[c].r IN
         /\ arg' = [arg EXCEPT ![c].obs = RootKind(r)]
         /\ IF RootKind(r) = "absent"
            THEN /\ pc' = [pc EXCEPT ![c] = "idle"]
                 /\ ret' = [ret EXCEPT ![c] = Failed("InvalidRootTokenContract")]
                 /\ tcsW' = NoOne
                 /\ UNCHANGED <<token_contract_states, counts>>
            ELSE /\ detections' = [detections EXCEPT ![r] = @ + 1]
                 /\ UNCHANGED root_fetches
                 /\ IF RootKind(r) = "undetectable"
                    THEN /\ pc' = [pc EXCEPT ![c] = "idle"]
                         /\ ret' = [ret EXCEPT ![c] = Failed(GuessDetailsError)]
                         /\ tcsW' = NoOne
                         /\ UNCHANGED token_contract_states
                    ELSE /\ token_contract_states' = token_contract_states \cup {r}
                         /\ AfterRootKnown(c, r, arg[c].o)
    /\ UNCHANGED <<msig, fixed, storage, owners, permits, ownersW, ownersR, sub,
                   ncalls, fetched, first, disturbed>>

\* line 226: owners.write().await, inside check_token_wallet
CtwWrite(c) ==
    /\ pc[c] = "ctw_wr"
    /\ OwnersFree
    /\ ownersW' = Task(c)
    /\ pc' = [pc EXCEPT ![c] = "ctw_wl"]
    /\ UNCHANGED <<msig, fixed, storage, owners, token_contract_states, permits,
                   ownersR, tcsW, arg, ret, sub, ncalls, counts, fetched, first,
                   disturbed>>

\* mutant: the owners write guard lives on across the existence fetch
CtwInsertKeepsGuard(c) ==
    /\ pc[c] = "ctw_wl"
    /\ owners' = Insert(owners, GetWalletAddress(arg[c].r, arg[c].o), arg[c].o)
    /\ pc' = [pc EXCEPT ![c] = "ctw_fetch"]
    /\ disturbed' = Disturb(c, owners')
    /\ UNCHANGED <<msig, fixed, storage, token_contract_states, permits,
                   ownersW, ownersR, tcsW, arg, ret, sub, ncalls, counts, fetched, first>>

\* mutant: the derived pair is not recorded
CtwInsertSkipped(c) ==
    /\ pc[c] = "ctw_wl"
    /\ owners' = owners
    /\ ownersW' = Nobody
    /\ pc' = [pc EXCEPT ![c] = "ctw_fetch"]
    /\ disturbed' = Disturb(c, owners')
    /\ UNCHANGED <<msig, fixed, storage, token_contract_states, permits,
                   ownersR, tcsW, arg, ret, sub, ncalls, counts, fetched, first>>

\* lines 227-230: insert, the guard dropped, the existence fetch issued
CtwInsert(c) ==
    /\ pc[c] = "ctw_wl"
    /\ owners' = Insert(owners, GetWalletAddress(arg[c].r, arg[c].o), arg[c].o)
    /\ ownersW' = Nobody
    /\ pc' = [pc EXCEPT ![c] = "ctw_fetch"]
    /\ disturbed' = Disturb(c, owners')
    /\ UNCHANGED <<msig, fixed, storage, token_contract_states, permits,
                   ownersR, tcsW, arg, ret, sub, ncalls, counts, fetched, first>>

\* lines 230-233: the existence fetch returns; the call returns and the
\* token_contract_states guard is dropped
CtwFetched(c, outcome) ==
    /\ pc[c] = "ctw_fetch"
    /\ arg' = [arg EXCEPT ![c].obs = outcome]
    /\ ret' = [ret EXCEPT ![c] =
                 CASE outcome = "err" -> Failed("transport")
                   [] outcome = "notexists" -> [NoRet EXCEPT !.tag = "NotExists"]
                   [] OTHER -> [NoRet EXCEPT !.tag = "Exists",
                                             !.val = GetWalletAddress(arg[c].r, arg[c].o)]]
    /\ pc' = [pc EXCEPT ![c] = "idle"]
    /\ tcsW' = NoOne
    /\ UNCHANGED <<msig, fixed, storage, owners, token_contract_states, permits,
                   ownersW, ownersR, sub, ncalls, counts, fetched, first, disturbed>>

(* ======================================================================= *)
(*        contracts/wallet/multisig.rs: multisig message preparation       *)
(* ======================================================================= *)
\* how far the wall clock is followed
MaxClock == 2
\* how many sign calls on one unsigned message are followed
MaxSigns == 3
\* how many compute_contract_address calls are kept side by side
MaxDerived == 2

PublicKeys == {"pk1", "pk2"}
MultisigType ==
    {"SafeMultisigWallet", "SafeMultisigWallet24h", "SetcodeMultisigWallet", "SurfWallet"}
\* the workchain of a deployed multisig wallet
DEFAULT_WORKCHAIN == 0
Workchains == {DEFAULT_WORKCHAIN, -1}
ExpireAts == {100, 200}
AccountStates == {"AccountUninit", "AccountActive", "AccountFrozen"}
AccountAddrs ==
    { [anycast |-> "none", workchain_id |-> 0, address |-> <<"acc1">>],
      [anycast |-> "none", workchain_id |-> -1, address |-> <<"acc2">>] }
Destinations == {"dst1"}
Amounts == {0, 5}
\* body: None, a slice that serializes, a slice whose serialization fails
Bodies == {"none", "slice", "unserializable"}
Signatures == {"sigA", "sigB"}

\* lines 171-176: the code template of the wallet variant
Code(multisig_type) == <<"code", multisig_type>>

\* lines 179-188: StateInit::construct_from the template, the public key
\* inserted into its data
PrepareStateInit(public_key, multisig_type) ==
    [code |-> Code(multisig_type),
     data |-> <<"data", multisig_type, public_key>>]

\* StateInit::hash: the representation hash of code and data
StateInitHash(state_init) == <<"hash", state_init.code, state_init.data>>

\* lines 155-168
ComputeContractAddress(public_key, multisig_type, workchain_id) ==
    [anycast |-> "none", workchain_id |-> workchain_id,
     address |-> StateInitHash(PrepareStateInit(public_key, multisig_type))]

NoStateInit == [code |-> <<>>, data |-> <<>>]
NoBody == [function |-> "none", input |-> <<>>, time |-> 0, expire |-> 0,
           pubkey |-> "none", sign |-> "none"]
NoAddress == [anycast |-> "none", workchain_id |-> 0, address |-> <<>>]

\* Message::with_ext_in_header: the destination, no StateInit, no body
WithExtInHeader(dst) == [dst |-> dst, init |-> NoStateInit, body |-> NoBody]

\* Function::create_unsigned_call(header, input, false, true): the encoded call
\* with the signature slot reserved, and the hash to sign
CreateUnsignedCall(function, input, time, expire_at, public_key) ==
    LET payload == [function |-> function, input |-> input, time |-> time,
                    expire |-> expire_at, pubkey |-> public_key, sign |-> "reserved"]
    IN  [payload |-> payload,
         hash |-> <<"hash", function, input, time, expire_at, public_key>>]

\* Function::fill_sign(2, Some(signature), None, payload)
FillSign(signature, payload) == [payload EXCEPT !.sign = signature]

NoMessage == [set |-> FALSE, hash |-> <<>>, payload |-> NoBody, expire_at |-> 0,
              message |-> WithExtInHeader(NoAddress)]
UnsignedMultisigMessage(hash, payload, expire_at, message) ==
    [set |-> TRUE, hash |-> hash, payload |-> payload, expire_at |-> expire_at,
     message |-> message]

NoOutcome == [op |-> "none", tag |-> "none", err |-> "none", did |-> <<>>,
              public_key |-> "none", multisig_type |-> "none", state |-> "none",
              addr |-> NoAddress, expire_at |-> 0, at |-> 0, rest |-> <<>>,
              msg |-> NoMessage]

\* mutant: the deploy message goes out without the StateInit
PrepareDeployResultNoStateInit(public_key, multisig_type, expire_at, time, encOk) ==
    LET state_init == PrepareStateInit(public_key, multisig_type)
        dst == [anycast |-> "none", workchain_id |-> DEFAULT_WORKCHAIN,
                address |-> StateInitHash(state_init)]
        message == WithExtInHeader(dst)
        call == CreateUnsignedCall("constructor", <<public_key, 1>>, time,
                                   expire_at, public_key)
        base == [NoOutcome EXCEPT !.op = "prepare_deploy", !.public_key = public_key,
                                  !.multisig_type = multisig_type,
                                  !.expire_at = expire_at, !.at = time]
    IN  IF ~encOk
        THEN [base EXCEPT !.tag = "Err", !.err = "abi",
                          !.did = <<"state_init", "message", "encode">>]
        ELSE [base EXCEPT !.tag = "Ok",
                          !.did = <<"state_init", "message", "encode", "hash">>,
                          !.msg = UnsignedMultisigMessage(call.hash, call.payload,
                                                          expire_at, message)]

\* lines 16-64: prepare_deploy; encOk is whether create_unsigned_call succeeds
PrepareDeployResult(public_key, multisig_type, expire_at, time, encOk) ==
    LET state_init == PrepareStateInit(public_key, multisig_type)
        dst == [anycast |-> "none", workchain_id |-> DEFAULT_WORKCHAIN,
                address |-> StateInitHash(state_init)]
        message == [WithExtInHeader(dst) EXCEPT !.init = state_init]
        call == CreateUnsignedCall("constructor", <<public_key, 1>>, time,
                                   expire_at, public_key)
        base == [NoOutcome EXCEPT !.op = "prepare_deploy", !.public_key = public_key,
                                  !.multisig_type = multisig_type,
                                  !.expire_at = expire_at, !.at = time]
    IN  IF ~encOk
        THEN [base EXCEPT !.tag = "Err", !.err = "abi",
                          !.did = <<"state_init", "message", "encode">>]
        ELSE [base EXCEPT !.tag = "Ok",
                          !.did = <<"state_init", "message", "encode", "hash">>,
                          !.msg = UnsignedMultisigMessage(call.hash, call.payload,
                                                          expire_at, message)]

\* the arguments of a prepare_transfer call: current_state is given by its account
\* status (state) and its address (addr)
TransferArgs ==
    [public_key : PublicKeys, state : AccountStates, addr : AccountAddrs,
     destination : Destinations, amount : Amounts, bounce : BOOLEAN,
     body : Bodies, expire_at : ExpireAts]

TransferBase(a, time, encOk) ==
    [NoOutcome EXCEPT !.op = "prepare_transfer", !.public_key = a.public_key,
                      !.state = a.state, !.addr = a.addr, !.expire_at = a.expire_at,
                      !.at = time,
                      !.rest = <<a.destination, a.amount, a.bounce, a.body, encOk>>]

\* what prepare_transfer does once the account state let it continue (lines 83-116)
TransferCall(a, time, encOk) ==
    LET base == TransferBase(a, time, encOk)
        message == WithExtInHeader(a.addr)
        input == <<a.destination, a.amount, a.bounce, 3,
                   IF a.body = "none" THEN "empty" ELSE a.body>>
        call == CreateUnsignedCall("sendTransaction", input, time, a.expire_at,
                                   a.public_key)
    IN  IF a.body = "unserializable"
        THEN [base EXCEPT !.tag = "Err", !.err = "serialize",
                          !.did = <<"message", "serialize">>]
        ELSE IF ~encOk
        THEN [base EXCEPT !.tag = "Err", !.err = "abi",
                          !.did = <<"message", "serialize", "encode">>]
        ELSE [base EXCEPT !.tag = "Sign",
                          !.did = <<"message", "serialize", "encode", "hash">>,
                          !.msg = UnsignedMultisigMessage(call.hash, call.payload,
                                                          a.expire_at, message)]

\* mutant: a frozen account is told to deploy first
PrepareTransferResultFrozenDeploys(a, time, encOk) ==
    IF a.state \in {"AccountFrozen", "AccountUninit"}
    THEN [TransferBase(a, time, encOk) EXCEPT !.tag = "DeployFirst"]
    ELSE TransferCall(a, time, encOk)

\* mutant: the account state is looked at only after the call has been encoded
PrepareTransferResultEncodesFirst(a, time, encOk) ==
    LET base == TransferBase(a, time, encOk)
        call == TransferCall(a, time, encOk)
    IN  IF call.tag = "Err" THEN call
        ELSE IF a.state = "AccountFrozen"
        THEN [base EXCEPT !.tag = "Err", !.err = "AccountIsFrozen", !.did = call.did]
        ELSE IF a.state = "AccountUninit"
        THEN [base EXCEPT !.tag = "DeployFirst", !.did = call.did]
        ELSE call

\* lines 66-117: prepare_transfer; encOk is whether create_unsigned_call succeeds
PrepareTransferResult(a, time, encOk) ==
    IF a.state = "AccountFrozen"
    THEN [TransferBase(a, time, encOk) EXCEPT !.tag = "Err", !.err = "AccountIsFrozen"]
    ELSE IF a.state = "AccountUninit"
    THEN [TransferBase(a, time, encOk) EXCEPT !.tag = "DeployFirst"]
    ELSE TransferCall(a, time, encOk)

\* mutant: the headers are stamped again when the signature is filled in
SignResultRestamped(self, signature, time) ==
    LET payload == FillSign(signature, [self.payload EXCEPT !.time = time])
    IN  [message |-> [self.message EXCEPT !.body = payload],
         expire_at |-> self.expire_at]

\* lines 132-143: sign on clones of the payload and of the message
SignResult(self, signature, time) ==
    LET payload == FillSign(signature, self.payload)
    IN  [message |-> [self.message EXCEPT !.body = payload],
         expire_at |-> self.expire_at]

\* the wall clock moves on
Tick ==
    /\ now < MaxClock
    /\ now' = now + 1
    /\ UNCHANGED <<cachevars, prepared, unsigned, signed, derived>>

\* whether nothing has been called yet: the functions keep no state, so one call
\* of each is followed at a time
Fresh == prepared.op = "none" /\ derived = <<>>

PrepareDeploy(public_key, multisig_type, expire_at, encOk) ==
    /\ Fresh
    /\ prepared' = PrepareDeployResult(public_key, multisig_type, expire_at, now, encOk)
    /\ unsigned' = prepared'.msg
    /\ UNCHANGED <<cachevars, now, signed, derived>>

PrepareTransfer(a, encOk) ==
    /\ Fresh
    /\ prepared' = PrepareTransferResult(a, now, encOk)
    /\ unsigned' = prepared'.msg
    /\ UNCHANGED <<cachevars, now, signed, derived>>

\* line 132: sign(&self, signature)
Sign(signature) ==
    /\ unsigned.set
    /\ Len(signed) < MaxSigns
    /\ signed' = Append(signed, [signature |-> signature, at |-> now,
                                 res |-> SignResult(unsigned, signature, now)])
    /\ UNCHANGED <<cachevars, now, prepared, unsigned, derived>>

ComputeAddress(public_key, multisig_type, workchain_id) ==
    /\ prepared.op = "none"
    /\ Len(derived) < MaxDerived
    /\ derived' = Append(derived,
                         [public_key |-> public_key, multisig_type |-> multisig_type,
                          workchain_id |-> workchain_id, at |-> now,
                          address |-> ComputeContractAddress(public_key, multisig_type,
                                                             workchain_id)])
    /\ UNCHANGED <<cachevars, now, prepared, unsigned, signed>>

MultisigStart ==
    /\ now = 0
    /\ prepared = NoOutcome
    /\ unsigned = NoMessage
    /\ signed = <<>>
    /\ derived = <<>>

(* ------------------------------ the system ----------------------------- *)
Init ==
    /\ cache = "none"
    /\ ctor = NoCtor
    /\ storage \in InitialRecords
    /\ owners = EmptyMap
    /\ token_contract_states = {}
    /\ limit = 0
    /\ permits = 0
    /\ ownersW = Nobody
    /\ ownersR = {}
    /\ tcsW = NoOne
    /\ pc = [c \in Callers |-> "idle"]
    /\ arg = [c \in Callers |-> NoArg]
    /\ ret = [c \in Callers |-> NoRet]
    /\ sub = [c \in Callers |-> [w \in TokenWallets |-> NoSub]]
    /\ ncalls = 0
    /\ root_fetches = [r \in Roots |-> 0]
    /\ detections = [r \in Roots |-> 0]
    /\ fetched = [c \in Callers |-> 0]
    /\ first = [c \in Callers |-> NoFirst]
    /\ disturbed = [c \in Callers |-> FALSE]
    /\ MultisigStart

Next ==
    \/ \E n \in Limits, getOk \in BOOLEAN : Load(n, getOk)
    \/ \E n \in Limits, getOk \in BOOLEAN : LoadUnchecked(n, getOk)
    \/ \E c \in Callers, w \in TokenWallets : GetOwnerRead(c, w)
    \/ \E c \in Callers : GetOwnerReturn(c)
    \/ \E c \in Callers, e \in AddEntryInputs : AddEntryWrite(c, e[1], e[2])
    \/ \E c \in Callers : AddEntryInsert(c)
    \/ \E c \in Callers, pairs \in OwnerLists : AddOwnersListWrite(c, pairs)
    \/ \E c \in Callers : AddOwnersListExtend(c)
    \/ \E c \in Callers : \E list \in ResolveInputs(c) : ResolveCall(c, list)
    \/ \E c \in Callers, w \in TokenWallets : SubRead(c, w)
    \/ \E c \in Callers, w \in TokenWallets : SubLookup(c, w)
    \/ \E c \in Callers, w \in TokenWallets : SubAcquire(c, w)
    \/ \E c \in Callers, w \in TokenWallets, outcome \in WalletOutcomes :
          SubFetched(c, w, outcome)
    \/ \E c \in Callers, w \in TokenWallets : SubWrite(c, w)
    \/ \E c \in Callers, w \in TokenWallets : SubInsert(c, w)
    \/ \E c \in Callers : ResolveReturn(c)
    \/ \E c \in Callers, e \in CrwInputs : CrwEnter(c, e[1], e[2])
    \/ \E c \in Callers : CrwRootError(c)
    \/ \E c \in Callers : CrwRootFetched(c)
    \/ \E c \in Callers : CtwWrite(c)
    \/ \E c \in Callers : CtwInsert(c)
    \/ \E c \in Callers, outcome \in {"err", "notexists", "exists"} : CtwFetched(c, outcome)

Spec == Init /\ [][Next]_vars

\* the cache with callers that may give up on a resolve_owners call
AbandonSpec == Init /\ [][Next \/ \E c \in Callers : Abandon(c)]_vars

\* the multisig functions applied to every input, on a cache nobody built
MultisigInit == Init /\ storage = Missing

MultisigNext ==
    \/ Tick
    \/ \E public_key \in PublicKeys, multisig_type \in MultisigType,
          expire_at \in ExpireAts, encOk \in BOOLEAN :
          PrepareDeploy(public_key, multisig_type, expire_at, encOk)
    \/ \E a \in TransferArgs, encOk \in BOOLEAN : PrepareTransfer(a, encOk)
    \/ \E signature \in Signatures : Sign(signature)
    \/ \E public_key \in PublicKeys, multisig_type \in MultisigType,
          workchain_id \in Workchains :
          ComputeAddress(public_key, multisig_type, workchain_id)

MultisigSpec == MultisigInit /\ [][MultisigNext]_vars

(* ======================================================================= *)
(*                               properties                                *)
(* ======================================================================= *)
SubIds == Callers \X TokenWallets
InFlight == {t \in SubIds : sub[t[1]][t[2]].st = "fetch"}
PermitHolders == {t \in SubIds : sub[t[1]][t[2]].st \in {"fetch", "wr", "wl"}}
Waiting == {t \in SubIds : sub[t[1]][t[2]].st = "acq"}

\* C1: with concurrent_resolvers = N, at most N get_contract_state fetches of
\* resolve_owners tasks are in flight, each task holding one permit from before
\* its fetch until after its insertion or failure.
ConcurrencyBound ==
    cache = "ok" =>
        /\ Cardinality(InFlight) <= limit
        /\ Cardinality(PermitHolders) + permits = limit
        /\ permits >= 0

\* C1 witness: every permit is out on a fetch and another task waits for one
PermitsExhausted ==
    /\ limit = 2
    /\ Cardinality(InFlight) = 2
    /\ Waiting # {}

AllIdle == \A c \in Callers : pc[c] = "idle"
Persisted(w, o) ==
    /\ storage.k = "list"
    /\ \E i \in 1..Len(storage.items) : storage.items[i] = Pair(w, o)

\* C2: every operation that mutates the owner map writes it to storage before it
\* returns, so with no mutating operation in progress the persisted snapshot
\* holds every pair of the owner map.
SnapshotCoversOwners ==
    (cache = "ok" /\ AllIdle) => \A w \in DOMAIN owners : Persisted(w, owners[w])

\* the owners write lock is held by a resolve_owners task or by check_token_wallet
ResolutionWrites ==
    /\ ownersW # Nobody
    /\ \/ ownersW[2] # NoOne
       \/ pc[ownersW[1]] = "ctw_wl"

\* C3: once the owner map holds (token_wallet -> owner), no step of
\* resolve_owners or check_recipient_wallet removes the key or replaces its value
\* with a different owner.
ResolutionKeepsEntries ==
    [][ResolutionWrites =>
         \A w \in DOMAIN owners : w \in DOMAIN owners' /\ owners'[w] = owners[w]]_vars

GoodRoots == {r \in Roots : RootKind(r) = "good"}
Returned(c, op) == pc[c] = "idle" /\ arg[c].op = op /\ ret[c].tag # "none"

\* C4 as claimed: for a root that exists and whose version is detectable, over
\* all check_recipient_wallet calls on one cache its state is fetched from the
\* transport exactly once and its version detected exactly once in total.
RootFetchedExactlyOnce ==
    \A r \in GoodRoots :
        /\ root_fetches[r] <= 1
        /\ detections[r] <= 1
        /\ \A c \in Callers :
             (Returned(c, "check_recipient_wallet") /\ arg[c].r = r) =>
                 (root_fetches[r] = 1)

\* C4 amended: exactly one fetch returns the root's state and its version is
\* detected exactly once; a fetch that fails in the transport caches nothing and
\* is repeated by the next call; once the root is in the token-contract-state
\* map no call issues a fetch for it.
RootStateObtainedOnce ==
    /\ [](\A r \in GoodRoots :
            /\ detections[r] <= 1
            /\ detections[r] <= root_fetches[r]
            /\ (r \in token_contract_states) <=> (detections[r] = 1)
            /\ \A c \in Callers :
                 /\ (pc[c] = "root_fetch" /\ arg[c].r = r) =>
                        (~arg[c].hit /\ r \notin token_contract_states)
                 /\ (Returned(c, "check_recipient_wallet") /\ arg[c].r = r
                       /\ arg[c].obs # "root_err") => detections[r] = 1)
    /\ [][\A r \in GoodRoots :
            r \in token_contract_states =>
                (root_fetches'[r] = root_fetches[r] /\ detections'[r] = detections[r])]_vars

\* C4 witness: a later call for the same root is served from the map
RootServedFromMap ==
    \E c \in Callers :
        /\ pc[c] = "ctw_fetch"
        /\ arg[c].hit
        /\ detections[arg[c].r] = 1

\* two resolve_owners calls in a row by one caller with the same input, nothing
\* else having changed the owner map since the first began; the second returned
ResolvedTwice(c) ==
    /\ Returned(c, "resolve_owners")
    /\ first[c].set
    /\ first[c].ws = arg[c].ws
    /\ ~disturbed[c]

\* C5 as claimed: for every input the second call returns the same mapping and
\* issues zero fetches.
ResolveIdempotent ==
    \A c \in Callers :
        ResolvedTwice(c) => (ret[c].map = first[c].map /\ fetched[c] = 0)

\* C5 amended: the second call returns every pair the first returned and fetches
\* only wallets the first failed to resolve; when the first resolved the whole
\* input, the mappings are equal and the second issues no fetch.
ResolveIdempotentOnResolved ==
    \A c \in Callers :
        ResolvedTwice(c) =>
            /\ \A w \in DOMAIN first[c].map :
                  w \in DOMAIN ret[c].map /\ ret[c].map[w] = first[c].map[w]
            /\ fetched[c] <= Cardinality(arg[c].ws \ DOMAIN first[c].map)
            /\ (DOMAIN first[c].map = arg[c].ws) =>
                  (ret[c].map = first[c].map /\ fetched[c] = 0)

\* C5 witness: a second call over a fully resolved two-wallet input
SecondCallAllHits ==
    \E c \in Callers :
        /\ ResolvedTwice(c)
        /\ Cardinality(arg[c].ws) = 2
        /\ DOMAIN first[c].map = arg[c].ws
        /\ fetched[c] = 0

\* C6: resolve_owners returns a mapping, never a failure: its keys are exactly
\* the distinct input wallets that were cached or resolved, each with the owner
\* that was cached or extracted; a wallet whose resolution failed is not in the
\* result and the failing task adds nothing to the owner map.
ResolveDropsFailures ==
    /\ [](\A c \in Callers :
            Returned(c, "resolve_owners") =>
                /\ ret[c].tag = "map"
                /\ DOMAIN ret[c].map = {w \in arg[c].ws : sub[c][w].out \in {"hit", "ok"}}
                /\ \A w \in DOMAIN ret[c].map :
                      ret[c].map[w] = IF sub[c][w].out = "ok" THEN ChainOwner(w)
                                      ELSE sub[c][w].own
                /\ \A w \in TokenWallets \ arg[c].ws : sub[c][w].st = "none")
    /\ [][\A t \in SubIds :
            LET old == sub[t[1]][t[2]]
                new == sub'[t[1]][t[2]]
            IN  /\ (old.st = "fetch" /\ new.out = "failed") =>
                      (owners' = owners /\ storage' = storage)
                /\ (old.st = "rd" /\ new.out = "hit") =>
                      (t[2] \in DOMAIN owners /\ new.own = owners[t[2]])
                /\ (old.st = "wl" /\ new.st = "done") =>
                      owners'[t[2]] = ChainOwner(t[2])]_vars

\* C6 witness: a two-wallet call returned with one wallet resolved, one dropped
PartialResult ==
    \E c \in Callers :
        /\ Returned(c, "resolve_owners")
        /\ Cardinality(arg[c].ws) = 2
        /\ Cardinality(DOMAIN ret[c].map) = 1
        /\ \E w \in arg[c].ws : sub[c][w].out = "failed"
        /\ \E w \in arg[c].ws : sub[c][w].out = "ok"

AwaitsTransport(c) == pc[c] \in {"root_fetch", "ctw_fetch"}
GetOwnerStep(c) == pc'[c] # pc[c] /\ (pc[c] = "go_rd" \/ pc'[c] = "go_rd")
CacheHitStep(t) ==
    \/ sub[t[1]][t[2]].st = "start" /\ sub'[t[1]][t[2]].st = "rd"
    \/ sub[t[1]][t[2]].st = "rd" /\ sub'[t[1]][t[2]].out = "hit"
ReadOnlyStep ==
    /\ UNCHANGED <<owners, token_contract_states, storage, permits, ownersW, tcsW>>
    /\ InFlight' = InFlight
    /\ \A c \in Callers : AwaitsTransport(c)' => AwaitsTransport(c)

\* C7: get_owner and the cache-hit branch of resolve_owners take only the owners
\* read lock, issue no fetch, take no permit and change neither map nor the
\* snapshot; no holder of the owners write lock is awaiting the transport, so
\* they never wait for a network call.
ReadersNeverWaitForNetwork ==
    /\ []((ownersR # {}) => (ownersW = Nobody))
    /\ [](\A c \in Callers : AwaitsTransport(c) => ownersW # Task(c))
    /\ [](\A t \in SubIds : sub[t[1]][t[2]].st \in {"acq", "fetch"} => ownersW # t)
    /\ [][(\E c \in Callers : GetOwnerStep(c)) => ReadOnlyStep]_vars
    /\ [][(\E t \in SubIds : CacheHitStep(t)) => ReadOnlyStep]_vars

\* C7 witness: get_owner holds its read lock while check_recipient_wallet's
\* existence fetch is in flight
ReadDuringFetch == pc["c1"] = "go_rd" /\ pc["c2"] = "ctw_fetch"

Derived(c) == GetWalletAddress(arg[c].r, arg[c].o)
CrwReturns(c) == pc[c] = "ctw_fetch" /\ pc'[c] = "idle"
Verdict(c) ==
    /\ (ret'[c].tag = "Exists") <=> (arg'[c].obs = "exists")
    /\ (ret'[c].tag = "Exists") => (ret'[c].val = Derived(c))
    /\ (ret'[c].tag = "NotExists") <=> (arg'[c].obs = "notexists")

\* C8 as claimed: when check_recipient_wallet derived the token wallet, the pair
\* (derived wallet -> owner) is in the owner map when the call returns, whatever
\* the existence fetch yields, and the call returns Exists(derived) exactly when
\* the transport reports the wallet as existing, NotExists when absent.
RecipientRecordedAtReturn ==
    [][\A c \in Callers :
         CrwReturns(c) =>
             /\ Derived(c) \in DOMAIN owners'
             /\ owners'[Derived(c)] = arg[c].o
             /\ Verdict(c)]_vars

\* C8 amended: the pair is written before the existence fetch is issued and is
\* in the owner map when the call returns unless another caller's operation
\* wrote a different owner for that token wallet during the fetch; the verdict
\* is as claimed.
RecipientRecordedBeforeFetch ==
    /\ [][\A c \in Callers :
            (pc[c] = "ctw_wl" /\ pc'[c] = "ctw_fetch") =>
                (Derived(c) \in DOMAIN owners' /\ owners'[Derived(c)] = arg[c].o)]_vars
    /\ [][\A c \in Callers :
            CrwReturns(c) =>
                /\ Derived(c) \in DOMAIN owners'
                /\ (owners'[Derived(c)] = arg[c].o \/ disturbed[c])
                /\ Verdict(c)]_vars
    /\ [](\A c \in Callers :
            (Returned(c, "check_recipient_wallet")
               /\ arg[c].obs \in {"err", "notexists", "exists"}) =>
                Derived(c) \in DOMAIN owners)

\* C8 witness: the only call so far, on an empty cache, returned the transport's
\* error for the existence fetch and left the derived pair in the owner map
RecordedDespiteFetchError ==
    \E c \in Callers :
        /\ Returned(c, "check_recipient_wallet")
        /\ ncalls = 1
        /\ storage = Missing
        /\ arg[c].obs = "err"
        /\ ret[c] = Failed("transport")
        /\ owners = ("w1" :> "o1")

Undecodable(rec) ==
    \/ rec.k = "malformed"
    \/ /\ rec.k = "list"
       /\ \E i \in 1..Len(rec.items) :
             ~AddrParses(rec.items[i][1]) \/ ~AddrParses(rec.items[i][2])
\* the owner map a decodable record stands for: each key with its last owner
Decoded(rec) ==
    LET n == Len(rec.items)
        keys == {AddrFromStr(rec.items[i][1]) : i \in 1..n}
        last(k) == CHOOSE i \in 1..n :
                      /\ AddrFromStr(rec.items[i][1]) = k
                      /\ \A j \in (i + 1)..n : AddrFromStr(rec.items[j][1]) # k
    IN  [k \in keys |-> AddrFromStr(rec.items[last(k)][2])]

\* C10: load returns an empty cache for a missing or empty record and fails for
\* a present record that does not decode; load_unchecked never fails, giving an
\* empty owner map wherever load would fail and load's owner map otherwise.
LoadContract ==
    ctor.by # NoOne =>
        LET wouldFail == ~ctor.getOk \/ Undecodable(storage)
            expected == IF storage.k = "missing" THEN EmptyMap ELSE Decoded(storage)
        IN  /\ (ctor.by = "load" /\ ctor.getOk /\ storage \in {Missing, Listed(<<>>)}) =>
                  (cache = "ok" /\ owners = EmptyMap)
            /\ (ctor.by = "load" /\ wouldFail) => cache = "failed"
            /\ (ctor.by = "load" /\ ~wouldFail) => (cache = "ok" /\ owners = expected)
            /\ (ctor.by = "load_unchecked") =>
                  /\ cache = "ok"
                  /\ owners = IF wouldFail THEN EmptyMap ELSE expected

\* C10 witness: load_unchecked built an empty cache over a record whose second
\* pair holds an unparseable address
LenientLoadOfBadRecord ==
    /\ ctor.by = "load_unchecked"
    /\ ctor.getOk
    /\ storage.k = "list"
    /\ Len(storage.items) = 2
    /\ Undecodable(storage)
    /\ cache = "ok"
    /\ owners = EmptyMap

\* C11: the record save writes for an owner map M, in whatever order the pairs
\* were emitted, is decoded by load on a fresh cache into exactly the pairs of M.
SaveLoadRoundTrip ==
    [][storage' # storage =>
         /\ storage'.k = "list"
         /\ Len(storage'.items) = Cardinality(DOMAIN owners')
         /\ LoadResult(storage', TRUE) = [ok |-> TRUE, map |-> owners']]_vars

\* C11 witness: add_entry saved a two-pair owner map with w2 emitted first
SavedTwoPairs ==
    /\ \E c \in Callers : Returned(c, "add_entry")
    /\ Cardinality(DOMAIN owners) = 2
    /\ storage.k = "list"
    /\ Len(storage.items) = 2
    /\ storage.items[1][1] = AddrToString("w2")
    /\ LoadResult(storage, TRUE).map = owners

(* ------------------ properties of the multisig functions --------------- *)
TransferPrepared == prepared.op = "prepare_transfer"
\* the arguments with which the call would fail if it got as far as encoding
WouldNotEncode == prepared.rest[4] = "unserializable" /\ ~prepared.rest[5]

\* C12: prepare_transfer on a Frozen account fails with the frozen-account
\* error whatever the other arguments are, and returns no TransferAction.
FrozenAlwaysFails ==
    (TransferPrepared /\ prepared.state = "AccountFrozen") =>
        /\ prepared.tag = "Err"
        /\ prepared.err = "AccountIsFrozen"
        /\ prepared.tag \notin {"DeployFirst", "Sign"}
        /\ ~unsigned.set

\* C12 witness: a frozen account, with arguments that could not be encoded
FrozenRefused ==
    /\ TransferPrepared
    /\ prepared.state = "AccountFrozen"
    /\ WouldNotEncode
    /\ prepared.err = "AccountIsFrozen"

\* C13: prepare_transfer on an Uninitialized account returns DeployFirst
\* whatever the other arguments are, having built no message, encoded no call
\* and computed no hash; Sign comes only from a state that is neither Frozen nor
\* Uninitialized, its message addressed to the account itself, without
\* StateInit, expiring at the caller's expire_at.
UninitDeploysFirst ==
    TransferPrepared =>
        /\ prepared.state = "AccountUninit" =>
              (prepared.tag = "DeployFirst" /\ prepared.did = <<>> /\ ~unsigned.set)
        /\ prepared.tag = "DeployFirst" => prepared.state = "AccountUninit"
        /\ prepared.tag = "Sign" =>
              /\ prepared.state \notin {"AccountFrozen", "AccountUninit"}
              /\ unsigned.set
              /\ unsigned.message.dst = prepared.addr
              /\ unsigned.message.init = NoStateInit
              /\ unsigned.expire_at = prepared.expire_at
              /\ unsigned.payload.expire = prepared.expire_at

\* C13 witness: an uninitialized account, with arguments that could not be encoded
UninitToldToDeploy ==
    /\ TransferPrepared
    /\ prepared.state = "AccountUninit"
    /\ WouldNotEncode
    /\ prepared.tag = "DeployFirst"

SignCalls == 1..Len(signed)

\* C14: sign leaves the unsigned message as it was, and any two calls on it
\* with the same signature, whenever made and whatever was signed in between,
\* return the same message and the expiration of the unsigned message.
SignIsRepeatable ==
    /\ [][signed' # signed => (unsigned' = unsigned /\ prepared' = prepared)]_vars
    /\ [](\A i, j \in SignCalls :
            signed[i].signature = signed[j].signature => signed[i].res = signed[j].res)
    /\ [](\A i \in SignCalls :
            /\ signed[i].res.expire_at = unsigned.expire_at
            /\ signed[i].res.message.dst = unsigned.message.dst
            /\ signed[i].res.message.init = unsigned.message.init
            /\ signed[i].res.message.body.sign = signed[i].signature
            /\ unsigned.payload.sign = "reserved"
            /\ unsigned.message.body = NoBody)

\* C14 witness: the same signature filled in twice at different times, another
\* one in between
SignedTwiceAround ==
    /\ Len(signed) = 3
    /\ signed[1].signature = signed[3].signature
    /\ signed[2].signature # signed[1].signature
    /\ signed[1].at < signed[3].at
    /\ signed[1].res = signed[3].res

DerivedCalls == 1..Len(derived)

\* C15: the message prepare_deploy returns is addressed to
\* compute_contract_address(public_key, variant, DEFAULT_WORKCHAIN), carries the
\* StateInit whose hash is that address, and expires at expire_at;
\* compute_contract_address returns the same address for the same arguments, and
\* an account id that does not depend on the workchain id.
DeployAddressed ==
    /\ (prepared.op = "prepare_deploy" /\ prepared.tag = "Ok") =>
          /\ unsigned.set
          /\ unsigned.message.dst =
                ComputeContractAddress(prepared.public_key, prepared.multisig_type,
                                       DEFAULT_WORKCHAIN)
          /\ unsigned.message.init =
                PrepareStateInit(prepared.public_key, prepared.multisig_type)
          /\ unsigned.message.dst.address = StateInitHash(unsigned.message.init)
          /\ unsigned.expire_at = prepared.expire_at
          /\ unsigned.payload.expire = prepared.expire_at
    /\ \A i, j \in DerivedCalls :
          (derived[i].public_key = derived[j].public_key
             /\ derived[i].multisig_type = derived[j].multisig_type) =>
              /\ derived[i].address.address = derived[j].address.address
              /\ derived[i].workchain_id = derived[j].workchain_id =>
                    derived[i].address = derived[j].address
    /\ \A i \in DerivedCalls :
          derived[i].address.workchain_id = derived[i].workchain_id

\* C15 witness: a deploy message for a SurfWallet, prepared a while ago
DeployPrepared ==
    /\ prepared.op = "prepare_deploy"
    /\ prepared.tag = "Ok"
    /\ prepared.multisig_type = "SurfWallet"
    /\ prepared.expire_at = 200
    /\ prepared.at < now
    /\ unsigned.message.dst.workchain_id = DEFAULT_WORKCHAIN

(* --------------------- locks, abandonment, progress -------------------- *)
\* C16: no operation holds the write lock of the owner map or of the
\* token-contract-state map while one of its get_contract_state calls is in
\* flight.
NoWriteLockAcrossFetch ==
    /\ \A c \in Callers : AwaitsTransport(c) => (tcsW # c /\ ownersW # Task(c))
    /\ \A t \in InFlight : ownersW # t

HoldsOwners(c) == ownersW = Task(c) \/ Task(c) \in ownersR

\* C17: no task holds a lock on the owner map and a lock on the
\* token-contract-state map at the same time.
MapsNeverLockedTogether ==
    \A c \in Callers : ~(tcsW = c /\ HoldsOwners(c))

FetchStarted(t) == sub[t[1]][t[2]].st \in {"fetch", "wr"}

\* C18: a sub-resolution of resolve_owners whose fetch has started goes on to
\* its end, also when the caller abandons the call: from fetching it can only
\* fail, or go on to wait for the write lock and insert its pair.
StartedFetchesRunOn ==
    [][\A t \in SubIds :
         FetchStarted(t) => sub'[t[1]][t[2]].st \in {"fetch", "wr", "wl", "done"}]_vars

\* the tasks of the cache: a caller inside a call, and each per-wallet future of
\* its resolve_owners call
Tasks == {Task(c) : c \in Callers} \cup SubIds
Active(t) ==
    IF t[2] = NoOne THEN pc[t[1]] # "idle"
    ELSE sub[t[1]][t[2]].st \notin {"none", "done"}

\* the next step of a task, a transport call returning being one
Step(t) ==
    IF t[2] = NoOne
    THEN \/ GetOwnerReturn(t[1]) \/ AddEntryInsert(t[1]) \/ AddOwnersListExtend(t[1])
         \/ ResolveReturn(t[1]) \/ CrwRootError(t[1]) \/ CrwRootFetched(t[1])
         \/ CtwWrite(t[1]) \/ CtwInsert(t[1])
         \/ \E o \in {"err", "notexists", "exists"} : CtwFetched(t[1], o)
    ELSE \/ SubRead(t[1], t[2]) \/ SubLookup(t[1], t[2]) \/ SubAcquire(t[1], t[2])
         \/ \E o \in WalletOutcomes : SubFetched(t[1], t[2], o)
         \/ SubWrite(t[1], t[2]) \/ SubInsert(t[1], t[2])

OwnersHolders == (IF ownersW = Nobody THEN {} ELSE {ownersW}) \cup ownersR

\* the tasks that hold what t waits for
Holders(t) ==
    IF t[2] = NoOne
    THEN CASE pc[t[1]] = "ctw_wr" -> OwnersHolders
           [] pc[t[1]] = "ro" -> {u \in SubIds : u[1] = t[1] /\ Active(u)}
           [] OTHER -> {}
    ELSE CASE sub[t[1]][t[2]].st = "start" -> OwnersHolders \ ownersR
           [] sub[t[1]][t[2]].st = "wr" -> OwnersHolders
           [] sub[t[1]][t[2]].st = "acq" -> PermitHolders
           [] OTHER -> {}

\* t can take its step, or every task holding what it waits for can, in turn
RECURSIVE Unblocked(_, _)
Unblocked(t, depth) ==
    \/ ENABLED Step(t)
    \/ /\ depth > 0
       /\ Holders(t) # {}
       /\ \A u \in Holders(t) : Unblocked(u, depth - 1)

HoldsALock(t) == ownersW = t \/ t \in ownersR \/ (t[2] = NoOne /\ tcsW = t[1])

\* C19: with transport calls returning, no set of tasks waits on each other:
\* every task inside a call can take its step or waits, through a chain of
\* holders, for a task that can; the token-contract-state lock is taken only by
\* a task holding no lock, the owner-map lock is the only one taken while
\* another (the token-contract-state write lock) is held, and no task waits
\* for a permit while holding a lock.
DeadlockFree ==
    /\ [](cache = "ok" => \A t \in Tasks : Active(t) => Unblocked(t, Cardinality(Tasks)))
    /\ [](\A t \in Waiting : ~HoldsALock(t) /\ ~HoldsALock(Task(t[1])))
    /\ [](\A t \in OwnersHolders : ENABLED Step(t))
    /\ [][\A c \in Callers :
            (tcsW' = c /\ tcsW # c) => (~HoldsOwners(c) /\ ~HoldsOwners(c)')]_vars
    /\ [][\A t \in Tasks :
            (HoldsALock(t) /\ ownersW' = t /\ ownersW # t) =>
                (tcsW = t[1] /\ pc[t[1]] = "ctw_wr")]_vars

\* C19 witness: with one permit, a task waits for the permit of a task that
\* waits for the owners write lock, held by check_token_wallet inside the
\* token-contract-state lock
ChainOfWaiters ==
    /\ limit = 1
    /\ \E t \in Waiting : \E u \in PermitHolders :
          /\ sub[u[1]][u[2]].st = "wr"
          /\ ~ENABLED Step(t)
          /\ ~ENABLED Step(u)
    /\ \E c \in Callers : pc[c] = "ctw_wl" /\ tcsW = c /\ ownersW = Task(c)

\* the scheduling the cache runs under: the executor polls every woken task,
\* tokio's RwLock and Semaphore serve their waiters in turn, and every transport
\* call returns; so a task whose step is possible again and again takes it
FairInit == Init /\ storage = Missing
FairSpec == FairInit /\ [][Next]_vars /\ \A t \in Tasks : WF_vars(Step(t))

\* C20: with at least one permit and every fetch returning, every
\* resolve_owners call returns, also with more uncached wallets than permits
\* and with failing fetches: every way out of a started fetch gives the permit
\* back, and with all calls returned every permit is available.
ResolveTerminates ==
    /\ \A c \in Callers : (pc[c] = "ro") ~> Returned(c, "resolve_owners")
    /\ []((cache = "ok" /\ AllIdle) => (limit >= 1 /\ permits = limit))
    /\ [][\A t \in SubIds :
            (sub[t[1]][t[2]].st \in {"fetch", "wl"} /\ sub'[t[1]][t[2]].st = "done") =>
                permits' = permits + 1]_vars

\* C20 witness: with one permit, a call over two uncached wallets has returned,
\* one fetch having failed, and the permit is back
ReturnedOverLimit ==
    /\ limit = 1
    /\ permits = 1
    /\ AllIdle
    /\ \E c \in Callers :
          /\ Returned(c, "resolve_owners")
          /\ Cardinality(arg[c].ws) = 2
          /\ fetched[c] = 2
          /\ \E w \in arg[c].ws : sub[c][w].out = "failed"

====
